---- MODULE Spec2Model ----
(***************************************************************************)
(* Booking engine of linda-salon-api: the reservation store, CreateBooking *)
(* (availability check, then insert), CancelBooking (read, then status     *)
(* update) and UpdateBookingStatus, run by concurrent callers against one  *)
(* shared store.  Every database statement is one atomic step; a handler   *)
(* that issues a read and later a write is two steps, so that other        *)
(* requests may run between them, as they do between two statements that   *)
(* are not wrapped in a transaction.                                       *)
(*                                                                         *)
(* A time-of-day is a Go string, modelled as the sequence of its bytes     *)
(* (ASCII codes), because the code compares times as strings.              *)
(***************************************************************************)
EXTENDS Integers, Sequences, FiniteSets, TLC

\* ------------------------------------------------------------------ bounds
MaxBookings == 2
\* Starts of the process, and requests in flight at once.
MaxRuns     == 2
\* Rows of the stylist_schedules table.
MaxSchedules == 5
MaxInFlight == 2
\* Passes through the slot loop of one query that are followed.
MaxIterations == 20

\* ------------------------------------------------------------ status names
BookingStatusPending   == "pending"
BookingStatusConfirmed == "confirmed"
BookingStatusCompleted == "completed"
BookingStatusCancelled == "cancelled"

Statuses ==
  {BookingStatusPending, BookingStatusConfirmed,
   BookingStatusCompleted, BookingStatusCancelled}

\* ------------------------------------------------------------ HTTP answers
StatusOK                  == 200
StatusCreated             == 201
StatusNoContent           == 204
StatusBadRequest          == 400
StatusForbidden           == 403
StatusNotFound            == 404
StatusConflict            == 409
StatusInternalServerError == 500

\* ------------------------------------------------------------------ strings
\* Bytes of the strings the model uses: '0'..'9' are 48..57, ':' is 58,
\* 'a'..'d' are 97..100.
IsDigit(c) == c >= 48 /\ c <= 57

\* Go's s < t on strings: bytewise lexicographic order, a proper prefix
\* being smaller.
RECURSIVE StrLess(_, _)
StrLess(s, t) ==
  IF t = <<>> THEN FALSE
  ELSE IF s = <<>> THEN TRUE
  ELSE IF Head(s) < Head(t) THEN TRUE
  ELSE IF Head(s) > Head(t) THEN FALSE
  ELSE StrLess(Tail(s), Tail(t))

StrLessEq(s, t) == s = t \/ StrLess(s, t)

\* strconv.Atoi on a two-byte slice with its error dropped: the number when
\* both bytes are digits, 0 otherwise.
Atoi2(s) ==
  IF Len(s) = 2 /\ IsDigit(s[1]) /\ IsDigit(s[2])
  THEN (s[1] - 48) * 10 + (s[2] - 48)
  ELSE 0

\* time.Date(0, 0, 0, hour, min, ...).Format("15:04") for 0 <= min < 60 and
\* hour >= 0: time.Date normalises an hour of 24 or more into later days, and
\* the format prints the hour of the day only.
FormatHHMM(hour, min) ==
  LET h == hour % 24
  IN  <<48 + (h \div 10), 48 + (h % 10), 58, 48 + (min \div 10), 48 + (min % 10)>>

\* ------------------------------------------------------------------ callers
\* Callers 1 and 2 are customers, caller 3 is the administrator; each has at
\* most one request in flight.
Users == {1, 2, 3}
Role(u) == IF u = 3 THEN "admin" ELSE "customer"
Customers == {u \in Users : Role(u) # "admin"}

\* ------------------------------------------------------------------ inputs
T0830   == FormatHHMM(8, 30)
T0900   == FormatHHMM(9, 0)
T1000   == FormatHHMM(10, 0)
T1030   == FormatHHMM(10, 30)
T1100   == FormatHHMM(11, 0)
T2330   == FormatHHMM(23, 30)
TLetters == <<97, 98, 58, 99, 100>>       \* "ab:cd"
TShort   == <<57, 58, 48, 48>>            \* "9:00"
TLong    == <<48, 57, 58, 48, 48, 97>>    \* "09:00a"

\* Start times of the form HH:MM whose bookings end on the same day: before
\* the window, at its start, and too late to end inside it.
DayStartTimes == {T0830, T0900, T1030}
\* More start times: a second slot of the window, a late start, and strings
\* that are not of the form HH:MM.
StartTimeInputs == DayStartTimes \cup {T1000, T2330, TLetters, TShort, TLong}

\* Service 3 is not in the catalog.
ServiceIDsInputs == {<<1, 2>>, <<3>>}
\* Stylist 2 does not exist.
StylistIDInputs == {1, 2}
\* 2025-01-06 is a Monday, 2025-01-07 a Tuesday; the third is not a date in
\* the layout 2006-01-02.
DateInputs == {"2025-01-06", "2025-01-07", "06/01/2025"}
StatusInputs == Statuses \cup {"bogus"}
\* While the table is not full the largest id is that of no row.
BookingIDInputs == 1..MaxBookings

\* The queries of GetAvailableSlots.  2025-01-08 is a Wednesday, for which
\* no stylist has a schedule row, and 2025-01-09 a Thursday, on which no
\* booking is made; a duration of 0 is refused, 45 is not a multiple of the
\* step, and 150 is longer than the Monday window.
DurationInputs == {0, 45, 60, 150}
SlotRequests ==
  [StylistID : {1}, Date : {"2025-01-06"}, Duration : DurationInputs]
  \cup [StylistID : {1},
        Date : {"2025-01-07", "2025-01-08", "2025-01-09", "06/01/2025"},
        Duration : {60}]
  \cup [StylistID : {2}, Date : {"2025-01-06"}, Duration : {60}]
\* The two constructors of StylistHandler: only the second sets bookingRepo.
NewStylistHandler == [bookingRepo |-> FALSE]
NewStylistHandlerWithBooking == [bookingRepo |-> TRUE]

\* The handler main builds, NewStylistHandler, is asked one of the queries;
\* the handler that reads bookings is asked all of them.
SlotCalls ==
  {[handler |-> NewStylistHandlerWithBooking, query |-> req] :
     req \in SlotRequests}
  \cup {[handler |-> NewStylistHandler,
         query |-> [StylistID |-> 1, Date |-> "2025-01-06", Duration |-> 60]]}
\* The start times of the bookings the slots are computed against.
SlotStartTimes == {T0900, T1000}

\* The bookings asked for after a slot answer: at two starts of the slot
\* grid of the Monday window, at one between them, and at one after the
\* window; and the slot query for their stylist, date and total duration, put
\* to a handler of either constructor.
T0915 == FormatHHMM(9, 15)
T1300 == FormatHHMM(13, 0)
AgreementRequests ==
  [ServiceIDs : {<<1, 2>>}, StylistID : {1}, Date : {"2025-01-06"},
   StartTime : {T0900, T0915, T1000, T1300}]
AgreementCalls ==
  [handler : {NewStylistHandler, NewStylistHandlerWithBooking},
   query : {[StylistID |-> 1, Date |-> "2025-01-06", Duration |-> 60]}]

\* The bodies of POST /admin/stylists/:id/schedules: a second Monday window,
\* before the one the table starts with; a Tuesday window that ends before
\* it starts; a Wednesday window that ends half an hour before midnight; and
\* a Wednesday window whose end is written 24:00.
T0700 == FormatHHMM(7, 0)
T2200 == FormatHHMM(22, 0)
T2400 == <<50, 52, 58, 48, 48>>
ScheduleInputs ==
  {[DayOfWeek |-> 1, StartTime |-> T0700, EndTime |-> T0900],
   [DayOfWeek |-> 2, StartTime |-> T1100, EndTime |-> T0900],
   [DayOfWeek |-> 3, StartTime |-> T2200, EndTime |-> T2330],
   [DayOfWeek |-> 3, StartTime |-> T2200, EndTime |-> T2400]}
\* The bookings asked for on a Monday with two windows, and the slot query
\* for them.
WindowRequests ==
  [ServiceIDs : {<<1, 2>>}, StylistID : {1}, Date : {"2025-01-06"},
   StartTime : {T0700, T0900}]
WindowCalls ==
  [handler : {NewStylistHandlerWithBooking},
   query : {[StylistID |-> 1, Date |-> "2025-01-06", Duration |-> 60]}]

\* The slot queries whose loop is followed pass by pass: each weekday that
\* has or can get a window, with a duration of none, one or two intervals.
SlotLoopCalls ==
  [handler : {NewStylistHandlerWithBooking},
   query : [StylistID : {1},
            Date : {"2025-01-06", "2025-01-07", "2025-01-08", "2025-01-09"},
            Duration : {0, 30, 60}]]

\* The instants at which IsUpcoming is evaluated, in hours since 2025-01-05
\* 00:00 UTC: an hour before 2025-01-06 begins, its first instant, an hour
\* into it, and the first instant of the day after.
NowInputs == {23, 24, 25, 48}

\* The queries of ListBookings: the defaults, a status filter, a start date
\* after every booking, an end date on the bookings' day with the second
\* page of one row, an end date that is not a date, and the first page of
\* one row.
DefaultListQuery ==
  [Status |-> "", StartDate |-> "", EndDate |-> "", Limit |-> 20, Offset |-> 0]
ListQueries ==
  {DefaultListQuery,
   [DefaultListQuery EXCEPT !.Status = "pending"],
   [DefaultListQuery EXCEPT !.StartDate = "2025-01-07"],
   [DefaultListQuery EXCEPT !.EndDate = "2025-01-06", !.Limit = 1, !.Offset = 1],
   [DefaultListQuery EXCEPT !.EndDate = "06/01/2025"],
   [DefaultListQuery EXCEPT !.Limit = 1]}

\* The bodies of PUT /admin/services/:id: a price or duration of 0 and an
\* is_active that is absent leave the field as it is.
UpdateServiceInputs ==
  {[Price |-> 0,   Duration |-> 0,  IsActive |-> "false"],
   [Price |-> 0,   Duration |-> 0,  IsActive |-> "true"],
   [Price |-> 900, Duration |-> 60, IsActive |-> "absent"]}
\* Service 3 is not in the catalog.
ServiceIDInputs == {1, 2, 3}

\* The JSON bodies of POST /bookings in the lifecycle runs: the members
\* CreateBookingRequest binds, and a member "status" it has no field for.
CreateBodies ==
  [service_ids : {<<1, 2>>}, stylist_id : {1}, date : {"2025-01-06"},
   start_time : SlotStartTimes, status : {BookingStatusConfirmed}]

\* migrationList as the source registers it, and the lists of the builds
\* that register further migrations after it, as the migrations guide
\* prescribes; a start of the process runs one of these builds.
migrationList == <<"v1">>
MigrationLists == {migrationList, <<"v1", "v2">>, <<"v1", "v2", "v3">>}

\* The timeout, in seconds, of the context main hands to srv.Shutdown.
ShutdownTimeout == 5

VARIABLES
  bookings,    \* the bookings table: row i has primary key i
  schedules,   \* the stylist_schedules table, in primary-key order
  services,    \* the services table: id -> row
  stylists,    \* the ids of the rows of the stylists table
  pc,          \* per caller: where its request in flight stands
  local,       \* per caller: the locals its request carries to the next step
  resp,        \* the answer written last: caller, operation, status code
  migrations,  \* the migrations table: the recorded versions, in insert order
  schema,      \* the versions whose changes are committed, in commit order
  run,         \* the process and its call of RunMigrations
  server       \* the HTTP servers of the process and the requests in flight

vars == <<bookings, schedules, services, stylists, pc, local, resp,
          migrations, schema, run, server>>
catalog == <<schedules, services, stylists>>
process == <<migrations, schema, run, server>>
store == <<bookings, schedules, services, stylists, pc, local, resp>>

NoLocal == [op |-> "none"]
NoResp  == [caller |-> 0, op |-> "none", code |-> 0]

\* No transaction open.
NoTx == [open |-> FALSE, changes |-> <<>>, records |-> <<>>]
\* No process running: list is the migrationList of the build, found and
\* applied the appliedMigrations and appliedMap of RunMigrations, i its
\* place in the list, executed the migration functions this run has called.
Stopped ==
  [pc |-> "stopped", list |-> <<>>, found |-> <<>>, applied |-> {}, i |-> 1,
   tx |-> NoTx, err |-> FALSE, executed |-> <<>>, runs |-> 0]
\* No server: srv is the http.Server main builds, engine the one router.Run
\* builds and serves on.
Down ==
  [pc |-> "down", listening |-> {}, active |-> [s \in {"srv", "engine"} |-> 0],
   waited |-> 0]

\* The tables and the callers before the first request.
InitStore ==
  /\ bookings = <<>>
  /\ schedules = << [StylistID |-> 1, DayOfWeek |-> 1, StartTime |-> T0900,
                     EndTime |-> T1100, IsActive |-> TRUE],
                    [StylistID |-> 1, DayOfWeek |-> 2, StartTime |-> T0900,
                     EndTime |-> T1100, IsActive |-> FALSE],
                    [StylistID |-> 1, DayOfWeek |-> 4, StartTime |-> T0900,
                     EndTime |-> FormatHHMM(17, 0), IsActive |-> TRUE] >>
  /\ services = (1 :> [ID |-> 1, Price |-> 500, Duration |-> 30, IsActive |-> TRUE])
             @@ (2 :> [ID |-> 2, Price |-> 800, Duration |-> 30, IsActive |-> TRUE])
  /\ stylists = {1}
  /\ pc = [u \in Users |-> "idle"]
  /\ local = [u \in Users |-> NoLocal]
  /\ resp = NoResp

\* The booking API is served by a process that has run the source's
\* migrationList and listens.
Init ==
  /\ InitStore
  /\ migrations = migrationList
  /\ schema = migrationList
  /\ run = [Stopped EXCEPT !.pc = "returned", !.list = migrationList,
                          !.found = migrationList, !.applied = {"v1"},
                          !.i = 2, !.runs = 1]
  /\ server = [Down EXCEPT !.pc = "serving", !.listening = {"engine"}]

\* A database without the migrations table, and no process.
InitProcess ==
  /\ InitStore
  /\ migrations = <<>>
  /\ schema = <<>>
  /\ run = Stopped
  /\ server = Down

\* ------------------------------------------------------------ pure helpers
Answer(u, op, code) == [caller |-> u, op |-> op, code |-> code]

\* An answer with a body, kept together with the request it answers.
AnswerWith(u, op, code, req, body) ==
  [caller |-> u, op |-> op, code |-> code, req |-> req, body |-> body]

\* c.ShouldBindJSON(&req) into a CreateBookingRequest: the members the
\* struct has a field for; every other member of the body is dropped.
ShouldBindJSON(body) ==
  [ServiceIDs |-> body.service_ids, StylistID |-> body.stylist_id,
   Date |-> body.date, StartTime |-> body.start_time]

\* time.Parse("2006-01-02", s) followed by Weekday(), over the date inputs:
\* the error flag and the day of the week (0 = Sunday).
ParseDate(s) ==
  CASE s = "2025-01-06" -> [err |-> FALSE, Weekday |-> 1]
    [] s = "2025-01-07" -> [err |-> FALSE, Weekday |-> 2]
    [] s = "2025-01-08" -> [err |-> FALSE, Weekday |-> 3]
    [] s = "2025-01-09" -> [err |-> FALSE, Weekday |-> 4]
    [] OTHER            -> [err |-> TRUE,  Weekday |-> 0]

\* Booking.IsCancellable
IsCancellable(b) ==
  b.Status = BookingStatusPending \/ b.Status = BookingStatusConfirmed

\* The instant time.Parse("2006-01-02", s) yields, midnight UTC of the date,
\* in hours since 2025-01-05 00:00 UTC.
DateInstant(s) ==
  CASE s = "2025-01-06" -> 24
    [] s = "2025-01-07" -> 48
    [] s = "2025-01-08" -> 72
    [] s = "2025-01-09" -> 96

\* IsUpcoming taking a booking whose date begins now as upcoming.
IsUpcomingFromNow(b, now) ==
  DateInstant(b.BookingDate) >= now
  /\ (b.Status = BookingStatusPending \/ b.Status = BookingStatusConfirmed)

\* Booking.IsUpcoming, evaluated when time.Now() is now.
IsUpcoming(b, now) ==
  DateInstant(b.BookingDate) > now
  /\ (b.Status = BookingStatusPending \/ b.Status = BookingStatusConfirmed)

\* The admin route group's guard: only a caller whose role is admin passes.
AdminRequired(u) == Role(u) = "admin"

\* CancelAuthorized without the ownership test.
CancelAuthorizedAnyone(role, bookingUserID, userID) == TRUE

\* The authorization test of CancelBooking: the caller is an administrator
\* or owns the booking.
CancelAuthorized(role, bookingUserID, userID) ==
  ~(role # "admin" /\ bookingUserID # userID)

\* The validStatuses map of UpdateBookingStatus.
validStatuses(s) == s \in Statuses

\* The rows the first query of IsAvailable matches, in primary-key order.
ScheduleRows(stylistID, dayOfWeek) ==
  {i \in DOMAIN schedules :
     /\ schedules[i].StylistID = stylistID
     /\ schedules[i].DayOfWeek = dayOfWeek
     /\ schedules[i].IsActive}

FirstRow(rows) == CHOOSE i \in rows : \A j \in rows : i <= j

\* ConflictingBookings counting rows of every status.
ConflictingBookingsAnyStatus(stylistID, date, startTime, endTime) ==
  {i \in DOMAIN bookings :
     /\ bookings[i].StylistID = stylistID
     /\ bookings[i].BookingDate = date
     /\ ~(StrLessEq(bookings[i].EndTime, startTime)
          \/ StrLessEq(endTime, bookings[i].StartTime))}

\* The rows the conflict query of IsAvailable counts.
ConflictingBookings(stylistID, date, startTime, endTime) ==
  {i \in DOMAIN bookings :
     /\ bookings[i].StylistID = stylistID
     /\ bookings[i].BookingDate = date
     /\ bookings[i].Status \in {"pending", "confirmed"}
     /\ ~(StrLessEq(bookings[i].EndTime, startTime)
          \/ StrLessEq(endTime, bookings[i].StartTime))}

\* StylistRepository.IsAvailable
IsAvailable(stylistID, date, startTime, endTime) ==
  LET rows == ScheduleRows(stylistID, ParseDate(date).Weekday)
  IN  IF rows = {} THEN FALSE
      ELSE LET schedule == schedules[FirstRow(rows)]
           IN  IF StrLess(startTime, schedule.StartTime)
                  \/ StrLess(schedule.EndTime, endTime)
               THEN FALSE
               ELSE Cardinality(ConflictingBookings(stylistID, date,
                                                    startTime, endTime)) = 0

\* time.Parse("15:04", s) with its error dropped, in minutes since the
\* instant 0000-01-01 00:00 UTC that a time without a date is parsed into:
\* the hour has one or two digits and is below 24, the minute has two digits
\* and is below 60, and nothing may follow.  On an error the result is the
\* zero time.Time, 0001-01-01 00:00 UTC, which is 366 days later.
ZeroTime == 366 * 24 * 60

ParseClock(s) ==
  LET hourLen == IF Len(s) >= 2 /\ IsDigit(s[1]) /\ IsDigit(s[2]) THEN 2
                 ELSE IF Len(s) >= 1 /\ IsDigit(s[1]) THEN 1 ELSE 0
      hour    == IF hourLen = 2 THEN Atoi2(SubSeq(s, 1, 2))
                 ELSE IF hourLen = 1 THEN s[1] - 48 ELSE 0
      rest    == SubSeq(s, hourLen + 1, Len(s))
  IN  IF /\ hourLen > 0
         /\ hour < 24
         /\ Len(rest) = 3
         /\ rest[1] = 58 /\ IsDigit(rest[2]) /\ IsDigit(rest[3])
         /\ Atoi2(SubSeq(rest, 2, 3)) < 60
      THEN hour * 60 + Atoi2(SubSeq(rest, 2, 3))
      ELSE ZeroTime

\* t.Format("15:04") of a time given in minutes since 0000-01-01 00:00.
FormatClock(t) == FormatHHMM(t \div 60, t % 60)

\* BookingRepository.GetByStylistAndDateString: the ids of the rows it
\* returns.
GetByStylistAndDateString(stylistID, dateStr) ==
  {i \in DOMAIN bookings :
     /\ bookings[i].StylistID = stylistID
     /\ bookings[i].BookingDate = dateStr
     /\ bookings[i].Status \in {BookingStatusPending, BookingStatusConfirmed}}

\* DaySchedule taking inactive rows as well.
DayScheduleAnyRow(stylistID, dayOfWeek) ==
  LET rows == {i \in DOMAIN schedules :
                 /\ schedules[i].StylistID = stylistID
                 /\ schedules[i].DayOfWeek = dayOfWeek}
  IN  IF rows = {} THEN 0 ELSE CHOOSE i \in rows : \A j \in rows : i <= j

\* The row GetAvailableSlots picks: the first of the stylist's active rows,
\* ordered by day_of_week and start_time, that is of the weekday; 0 if there
\* is none.  Rows with equal start_time are taken in primary-key order.
DaySchedule(stylistID, dayOfWeek) ==
  LET rows == ScheduleRows(stylistID, dayOfWeek)
  IN  IF rows = {} THEN 0
      ELSE CHOOSE i \in rows :
             \A j \in rows :
               \/ StrLess(schedules[i].StartTime, schedules[j].StartTime)
               \/ (schedules[i].StartTime = schedules[j].StartTime /\ i <= j)

\* The overlap test of GetAvailableSlots between the slot
\* [currentTime, slotEnd) and a fetched booking.  The handler names the
\* booking's start booking.BookingTime and its length
\* booking.Service.Duration; the bookings table holds them in the columns
\* start_time and duration.
SlotConflicts(currentTime, slotEnd, booking) ==
  LET bookingTime == ParseClock(booking.StartTime)
      bookingEnd  == bookingTime + booking.Duration
  IN  /\ booking.Status # "cancelled"
      /\ currentTime < bookingEnd
      /\ slotEnd > bookingTime

\* GenerateSlots without the test that the slot ends inside the window.
RECURSIVE GenerateSlotsNoEndTest(_, _, _, _)
GenerateSlotsNoEndTest(currentTime, endTime, duration, existingBookings) ==
  IF ~(currentTime < endTime) THEN <<>>
  ELSE << [Time |-> FormatClock(currentTime),
           Available |->
             ~\E i \in existingBookings :
                SlotConflicts(currentTime, currentTime + duration, bookings[i])] >>
       \o GenerateSlotsNoEndTest(currentTime + 30, endTime, duration,
                                 existingBookings)

\* GenerateSlots stepping by an hour.
RECURSIVE GenerateSlotsHourly(_, _, _, _)
GenerateSlotsHourly(currentTime, endTime, duration, existingBookings) ==
  IF ~(currentTime < endTime) THEN <<>>
  ELSE LET slotEnd == currentTime + duration
       IN  IF slotEnd > endTime THEN <<>>
           ELSE << [Time |-> FormatClock(currentTime),
                    Available |->
                      ~\E i \in existingBookings :
                         SlotConflicts(currentTime, slotEnd, bookings[i])] >>
                \o GenerateSlotsHourly(currentTime + 60, endTime, duration,
                                       existingBookings)

\* The slot loop of GetAvailableSlots from currentTime on.
RECURSIVE GenerateSlots(_, _, _, _)
GenerateSlots(currentTime, endTime, duration, existingBookings) ==
  IF ~(currentTime < endTime) THEN <<>>
  ELSE LET slotEnd == currentTime + duration
       IN  IF slotEnd > endTime THEN <<>>
           ELSE << [Time |-> FormatClock(currentTime),
                    Available |->
                      ~\E i \in existingBookings :
                         SlotConflicts(currentTime, slotEnd, bookings[i])] >>
                \o GenerateSlots(currentTime + 30, endTime, duration,
                                 existingBookings)

\* time.Parse("2006-01-02", s) with its error dropped, as ListBookings reads
\* its date filters: on an error the zero time, which is before every date.
FilterInstant(s) == IF ParseDate(s).err THEN 0 - 1 ELSE DateInstant(s)

\* The bijections from 1..n onto a set of n ids: the orders in which a query
\* may return these rows.
Orders(ids) ==
  {f \in [1..Cardinality(ids) -> ids] :
     \A i, j \in 1..Cardinality(ids) : i # j => f[i] # f[j]}

Min(a, b) == IF a < b THEN a ELSE b

\* ORDER BY booking_date DESC, start_time DESC: a may come before b.
OrderedBefore(a, b) ==
  \/ DateInstant(a.BookingDate) > DateInstant(b.BookingDate)
  \/ /\ a.BookingDate = b.BookingDate
     /\ StrLessEq(b.StartTime, a.StartTime)

\* BookingRepository.List without the user_id filter.
ListOfEverybody(table, userID, q) ==
  LET ids == {i \in DOMAIN table :
                /\ q.Status = "" \/ table[i].Status = q.Status
                /\ q.StartDate = ""
                     \/ DateInstant(table[i].BookingDate) >= FilterInstant(q.StartDate)
                /\ q.EndDate = ""
                     \/ DateInstant(table[i].BookingDate) <= FilterInstant(q.EndDate)}
  IN  {[bookings |-> [k \in 1..(Min(q.Offset + q.Limit, Len(f)) - Min(q.Offset, Len(f)))
                        |-> [ID |-> f[k + q.Offset], row |-> table[f[k + q.Offset]]]],
        total |-> Cardinality(ids), limit |-> q.Limit, offset |-> q.Offset] :
         f \in {g \in Orders(ids) :
                  \A i, j \in DOMAIN g :
                    i < j => OrderedBefore(table[g[i]], table[g[j]])}}

\* BookingRepository.List on a bookings table (id -> row), and the body
\* ListBookings answers with: the answers the query may give, one for each
\* order the database may return rows of equal date and start time in.  A
\* userID of 0 is the nil pointer: no user_id filter.
List(table, userID, q) ==
  LET ids == {i \in DOMAIN table :
                /\ userID = 0 \/ table[i].UserID = userID
                /\ q.Status = "" \/ table[i].Status = q.Status
                /\ q.StartDate = ""
                     \/ DateInstant(table[i].BookingDate) >= FilterInstant(q.StartDate)
                /\ q.EndDate = ""
                     \/ DateInstant(table[i].BookingDate) <= FilterInstant(q.EndDate)}
  IN  {[bookings |-> [k \in 1..(Min(q.Offset + q.Limit, Len(f)) - Min(q.Offset, Len(f)))
                        |-> [ID |-> f[k + q.Offset], row |-> table[f[k + q.Offset]]]],
        total |-> Cardinality(ids), limit |-> q.Limit, offset |-> q.Offset] :
         f \in {g \in Orders(ids) :
                  \A i, j \in DOMAIN g :
                    i < j => OrderedBefore(table[g[i]], table[g[j]])}}

\* The answer of GetBooking on a bookings table (id -> row); only the 200
\* carries a booking.
GetBookingAnswer(table, u, id) ==
  IF id \notin DOMAIN table
  THEN AnswerWith(u, "GetBooking", StatusNotFound, [ID |-> id],
                  [bookings |-> <<>>])
  ELSE IF Role(u) # "admin" /\ table[id].UserID # u
  THEN AnswerWith(u, "GetBooking", StatusForbidden, [ID |-> id],
                  [bookings |-> <<>>])
  ELSE AnswerWith(u, "GetBooking", StatusOK, [ID |-> id],
                  [bookings |-> <<[ID |-> id, row |-> table[id]]>>])

\* The service loop of CreateBooking: the snapshots of the requested
\* services, in request order.
ServiceItems(ids) ==
  [k \in DOMAIN ids |->
     [ID |-> services[ids[k]].ID, Price |-> services[ids[k]].Price,
      Duration |-> services[ids[k]].Duration]]

RECURSIVE SumDuration(_)
SumDuration(items) ==
  IF items = <<>> THEN 0 ELSE Head(items).Duration + SumDuration(Tail(items))

RECURSIVE SumPrice(_)
SumPrice(items) ==
  IF items = <<>> THEN 0 ELSE Head(items).Price + SumPrice(Tail(items))

\* The end-time computation of CreateBooking.
EndTimeOf(startTime, totalDuration) ==
  LET startHour == Atoi2(SubSeq(startTime, 1, 2))
      startMin  == Atoi2(SubSeq(startTime, 4, 5))
      endMin    == startMin + totalDuration
      endHour   == startHour + (endMin \div 60)
  IN  FormatHHMM(endHour, endMin % 60)


\* ------------------------------------------------------------------ actions
\* The requests in flight that will still insert a row.
PendingInserts == Cardinality({u \in Users : pc[u] = "create_insert"})

\* CreateBooking up to and including the availability check.  The request is
\* answered here when it is refused; otherwise the booking it built waits for
\* the insert.
CreateBookingCheck(u, req) ==
  /\ pc[u] = "idle"
  /\ UNCHANGED process
  /\ Len(bookings) + PendingInserts < MaxBookings
  /\ UNCHANGED <<bookings, catalog>>
  /\ IF \E k \in DOMAIN req.ServiceIDs : req.ServiceIDs[k] \notin DOMAIN services
     THEN /\ resp' = Answer(u, "CreateBooking", StatusBadRequest)
          /\ UNCHANGED <<pc, local>>
     ELSE IF req.StylistID \notin stylists
     THEN /\ resp' = Answer(u, "CreateBooking", StatusBadRequest)
          /\ UNCHANGED <<pc, local>>
     ELSE IF ParseDate(req.Date).err
     THEN /\ resp' = Answer(u, "CreateBooking", StatusBadRequest)
          /\ UNCHANGED <<pc, local>>
     ELSE IF Len(req.StartTime) < 5
     THEN \* slice bounds out of range: the panic is recovered by gin.Recovery
          /\ resp' = Answer(u, "CreateBooking", StatusInternalServerError)
          /\ UNCHANGED <<pc, local>>
     ELSE LET items         == ServiceItems(req.ServiceIDs)
              totalDuration == SumDuration(items)
              totalPrice    == SumPrice(items)
              endTime       == EndTimeOf(req.StartTime, totalDuration)
          IN  IF ~IsAvailable(req.StylistID, req.Date, req.StartTime, endTime)
              THEN /\ resp' = Answer(u, "CreateBooking", StatusConflict)
                   /\ UNCHANGED <<pc, local>>
              ELSE /\ pc' = [pc EXCEPT ![u] = "create_insert"]
                   /\ local' = [local EXCEPT ![u] =
                        [op |-> "CreateBooking",
                         booking |->
                           [UserID |-> u, StylistID |-> req.StylistID,
                            Services |-> items, BookingDate |-> req.Date,
                            StartTime |-> req.StartTime, EndTime |-> endTime,
                            Duration |-> totalDuration, Price |-> totalPrice,
                            Status |-> BookingStatusPending]]]
                   /\ UNCHANGED resp

\* CreateBookingInsert storing the row as confirmed.
CreateBookingInsertConfirmed(u) ==
  /\ pc[u] = "create_insert"
  /\ UNCHANGED process
  /\ pc' = [pc EXCEPT ![u] = "idle"]
  /\ local' = [local EXCEPT ![u] = NoLocal]
  /\ UNCHANGED catalog
  /\ bookings' = Append(bookings, [local[u].booking EXCEPT
                                     !.Status = BookingStatusConfirmed])
  /\ resp' = Answer(u, "CreateBooking", StatusCreated)

\* BookingRepository.Create and the answer of CreateBooking.  The start_time
\* column is varchar(5): a longer value makes the insert fail.
CreateBookingInsert(u) ==
  /\ pc[u] = "create_insert"
  /\ UNCHANGED process
  /\ pc' = [pc EXCEPT ![u] = "idle"]
  /\ local' = [local EXCEPT ![u] = NoLocal]
  /\ UNCHANGED catalog
  /\ IF Len(local[u].booking.StartTime) > 5
     THEN /\ resp' = Answer(u, "CreateBooking", StatusInternalServerError)
          /\ UNCHANGED bookings
     ELSE /\ bookings' = Append(bookings, local[u].booking)
          /\ resp' = Answer(u, "CreateBooking", StatusCreated)

\* UpdateStatus without the WHERE clause: every row gets the status.
UpdateStatusEveryRow(id, status) ==
  bookings' = [i \in DOMAIN bookings |-> [bookings[i] EXCEPT !.Status = status]]

\* UpdateStatus deleting the newest row when it is cancelled.
UpdateStatusDeleting(id, status) ==
  bookings' = IF status = BookingStatusCancelled /\ id = Len(bookings)
              THEN SubSeq(bookings, 1, Len(bookings) - 1)
              ELSE [i \in DOMAIN bookings |->
                      IF i = id THEN [bookings[i] EXCEPT !.Status = status]
                      ELSE bookings[i]]

\* BookingRepository.UpdateStatus: one UPDATE ... WHERE id = ?, which changes
\* no row when the id is absent.
UpdateStatus(id, status) ==
  bookings' = [i \in DOMAIN bookings |->
                 IF i = id THEN [bookings[i] EXCEPT !.Status = status]
                 ELSE bookings[i]]

\* UpdateBookingStatus, behind the admin guard.
UpdateBookingStatus(u, id, status) ==
  /\ pc[u] = "idle"
  /\ UNCHANGED process
  /\ UNCHANGED <<catalog, pc, local>>
  /\ IF ~AdminRequired(u)
     THEN /\ resp' = Answer(u, "UpdateBookingStatus", StatusForbidden)
          /\ UNCHANGED bookings
     ELSE IF ~validStatuses(status)
     THEN /\ resp' = Answer(u, "UpdateBookingStatus", StatusBadRequest)
          /\ UNCHANGED bookings
     ELSE /\ UpdateStatus(id, status)
          /\ resp' = Answer(u, "UpdateBookingStatus", StatusOK)

\* CancelBookingRead writing the status before it tests IsCancellable, so
\* that the refusal comes after the write.
CancelBookingReadWriteFirst(u, id) ==
  /\ pc[u] = "idle"
  /\ UNCHANGED process
  /\ UNCHANGED catalog
  /\ IF id \notin DOMAIN bookings
     THEN /\ resp' = Answer(u, "CancelBooking", StatusNotFound)
          /\ UNCHANGED <<bookings, pc, local>>
     ELSE IF ~CancelAuthorized(Role(u), bookings[id].UserID, u)
     THEN /\ resp' = Answer(u, "CancelBooking", StatusForbidden)
          /\ UNCHANGED <<bookings, pc, local>>
     ELSE IF ~IsCancellable(bookings[id])
     THEN /\ UpdateStatus(id, BookingStatusCancelled)
          /\ resp' = Answer(u, "CancelBooking", StatusBadRequest)
          /\ UNCHANGED <<pc, local>>
     ELSE /\ pc' = [pc EXCEPT ![u] = "cancel_write"]
          /\ local' = [local EXCEPT ![u] = [op |-> "CancelBooking", id |-> id]]
          /\ UNCHANGED <<bookings, resp>>

\* CancelBooking up to and including the IsCancellable test on the row it
\* read.
CancelBookingRead(u, id) ==
  /\ pc[u] = "idle"
  /\ UNCHANGED process
  /\ UNCHANGED <<bookings, catalog>>
  /\ IF id \notin DOMAIN bookings
     THEN /\ resp' = Answer(u, "CancelBooking", StatusNotFound)
          /\ UNCHANGED <<pc, local>>
     ELSE IF ~CancelAuthorized(Role(u), bookings[id].UserID, u)
     THEN /\ resp' = Answer(u, "CancelBooking", StatusForbidden)
          /\ UNCHANGED <<pc, local>>
     ELSE IF ~IsCancellable(bookings[id])
     THEN /\ resp' = Answer(u, "CancelBooking", StatusBadRequest)
          /\ UNCHANGED <<pc, local>>
     ELSE /\ pc' = [pc EXCEPT ![u] = "cancel_write"]
          /\ local' = [local EXCEPT ![u] = [op |-> "CancelBooking", id |-> id]]
          /\ UNCHANGED resp

\* The status update of CancelBooking and its answer.
CancelBookingWrite(u) ==
  /\ pc[u] = "cancel_write"
  /\ UNCHANGED process
  /\ UpdateStatus(local[u].id, BookingStatusCancelled)
  /\ pc' = [pc EXCEPT ![u] = "idle"]
  /\ local' = [local EXCEPT ![u] = NoLocal]
  /\ resp' = Answer(u, "CancelBooking", StatusOK)
  /\ UNCHANGED catalog

\* The field updates of UpdateService on the row it read.
UpdatedService(service, req) ==
  [service EXCEPT
     !.Price    = IF req.Price > 0 THEN req.Price ELSE @,
     !.Duration = IF req.Duration > 0 THEN req.Duration ELSE @,
     !.IsActive = IF req.IsActive = "absent" THEN @ ELSE req.IsActive = "true"]

\* UpdateService, behind the admin guard, up to the row it is about to save.
\* ServiceRepository.GetByID finds no row that is soft-deleted.
UpdateServiceRead(u, id, req) ==
  /\ pc[u] = "idle"
  /\ UNCHANGED process
  /\ UNCHANGED <<bookings, catalog>>
  /\ IF ~AdminRequired(u)
     THEN /\ resp' = Answer(u, "UpdateService", StatusForbidden)
          /\ UNCHANGED <<pc, local>>
     ELSE IF id \notin DOMAIN services
     THEN /\ resp' = Answer(u, "UpdateService", StatusNotFound)
          /\ UNCHANGED <<pc, local>>
     ELSE /\ pc' = [pc EXCEPT ![u] = "update_save"]
          /\ local' = [local EXCEPT ![u] =
               [op |-> "UpdateService",
                service |-> UpdatedService(services[id], req)]]
          /\ UNCHANGED resp

\* UpdateServiceSave rewriting, in every booking, the snapshots of the saved
\* service.
UpdateServiceSaveCascading(u) ==
  /\ pc[u] = "update_save"
  /\ UNCHANGED process
  /\ services' = (local[u].service.ID :> local[u].service) @@ services
  /\ bookings' =
       [i \in DOMAIN bookings |->
          [bookings[i] EXCEPT !.Services =
             [k \in DOMAIN @ |->
                IF @[k].ID = local[u].service.ID
                THEN [ID |-> @[k].ID, Price |-> local[u].service.Price,
                      Duration |-> local[u].service.Duration]
                ELSE @[k]]]]
  /\ pc' = [pc EXCEPT ![u] = "idle"]
  /\ local' = [local EXCEPT ![u] = NoLocal]
  /\ resp' = Answer(u, "UpdateService", StatusOK)
  /\ UNCHANGED <<schedules, stylists>>

\* ServiceRepository.Update (Save writes every column of the row) and the
\* answer of UpdateService.
UpdateServiceSave(u) ==
  /\ pc[u] = "update_save"
  /\ UNCHANGED process
  /\ services' = (local[u].service.ID :> local[u].service) @@ services
  /\ pc' = [pc EXCEPT ![u] = "idle"]
  /\ local' = [local EXCEPT ![u] = NoLocal]
  /\ resp' = Answer(u, "UpdateService", StatusOK)
  /\ UNCHANGED <<bookings, schedules, stylists>>

\* DeleteService, behind the admin guard: a soft delete, after which no
\* query finds the row; deleting an absent id is no error.
DeleteService(u, id) ==
  /\ pc[u] = "idle"
  /\ UNCHANGED process
  /\ UNCHANGED <<bookings, schedules, stylists, pc, local>>
  /\ IF ~AdminRequired(u)
     THEN /\ resp' = Answer(u, "DeleteService", StatusForbidden)
          /\ UNCHANGED services
     ELSE /\ services' = [i \in DOMAIN services \ {id} |-> services[i]]
          /\ resp' = Answer(u, "DeleteService", StatusNoContent)

\* GetAvailableSlots of a handler h built by one of the two constructors.
\* The handler reads nothing of the caller, who is recorded as 0.
GetAvailableSlots(h, req) ==
  /\ UNCHANGED <<bookings, catalog, pc, local>>
  /\ UNCHANGED process
  /\ IF req.Duration <= 0 \/ ParseDate(req.Date).err
     THEN resp' = AnswerWith(0, "GetAvailableSlots", StatusBadRequest,
                             [handler |-> h, query |-> req], <<>>)
     ELSE LET daySchedule == DaySchedule(req.StylistID,
                                         ParseDate(req.Date).Weekday)
          IN  IF daySchedule = 0
              THEN resp' = AnswerWith(0, "GetAvailableSlots", StatusOK,
                                      [handler |-> h, query |-> req], <<>>)
              ELSE LET existingBookings ==
                         IF h.bookingRepo
                         THEN GetByStylistAndDateString(req.StylistID, req.Date)
                         ELSE {}
                       startTime == ParseClock(schedules[daySchedule].StartTime)
                       endTime   == ParseClock(schedules[daySchedule].EndTime)
                   IN  resp' = AnswerWith(0, "GetAvailableSlots", StatusOK,
                                 [handler |-> h, query |-> req],
                                 GenerateSlots(startTime, endTime, req.Duration,
                                               existingBookings))

\* Booking.IsCancellable and Booking.IsUpcoming evaluated on row id at the
\* instant now; neither writes anything.
EvaluatePredicates(id, now) ==
  /\ id \in DOMAIN bookings
  /\ UNCHANGED process
  /\ UNCHANGED <<bookings, catalog, pc, local>>
  /\ resp' = AnswerWith(0, "Booking.IsUpcoming", 0,
                        [booking |-> bookings[id], now |-> now],
                        [IsCancellable |-> IsCancellable(bookings[id]),
                         IsUpcoming |-> IsUpcoming(bookings[id], now)])

\* ListBookings: one query, answered in one step.
ListBookings(u, q) ==
  /\ pc[u] = "idle"
  /\ UNCHANGED process
  /\ UNCHANGED <<bookings, catalog, pc, local>>
  /\ \E body \in List(bookings, IF Role(u) # "admin" THEN u ELSE 0, q) :
       resp' = AnswerWith(u, "ListBookings", StatusOK, q, body)

\* GetBooking
GetBooking(u, id) ==
  /\ pc[u] = "idle"
  /\ UNCHANGED process
  /\ UNCHANGED <<bookings, catalog, pc, local>>
  /\ resp' = GetBookingAnswer(bookings, u, id)

\* CreateSchedule, behind the admin guard: the row is stored as the body
\* gives it, active, under the next primary key.
CreateSchedule(u, id, req) ==
  /\ pc[u] = "idle"
  /\ Len(schedules) < MaxSchedules
  /\ UNCHANGED <<bookings, services, stylists, pc, local, process>>
  /\ IF ~AdminRequired(u)
     THEN /\ resp' = Answer(u, "CreateSchedule", StatusForbidden)
          /\ UNCHANGED schedules
     ELSE /\ schedules' = Append(schedules,
                                 [StylistID |-> id, DayOfWeek |-> req.DayOfWeek,
                                  StartTime |-> req.StartTime,
                                  EndTime |-> req.EndTime, IsActive |-> TRUE])
          /\ resp' = Answer(u, "CreateSchedule", StatusCreated)

\* GetAvailableSlots up to its loop, for a caller u: the query is checked,
\* the day's window and the day's bookings are fetched, and the two ends of
\* the window are parsed with the errors dropped.
GetAvailableSlotsBegin(u, h, req) ==
  /\ pc[u] = "idle"
  /\ UNCHANGED <<bookings, catalog, process>>
  /\ IF req.Duration <= 0 \/ ParseDate(req.Date).err
     THEN /\ resp' = AnswerWith(u, "GetAvailableSlots", StatusBadRequest,
                                [handler |-> h, query |-> req], <<>>)
          /\ UNCHANGED <<pc, local>>
     ELSE LET daySchedule == DaySchedule(req.StylistID,
                                         ParseDate(req.Date).Weekday)
          IN  IF daySchedule = 0
              THEN /\ resp' = AnswerWith(u, "GetAvailableSlots", StatusOK,
                                         [handler |-> h, query |-> req], <<>>)
                   /\ UNCHANGED <<pc, local>>
              ELSE /\ pc' = [pc EXCEPT ![u] = "slot_loop"]
                   /\ local' = [local EXCEPT ![u] =
                        [op |-> "GetAvailableSlots",
                         handler |-> h,
                         query |-> req,
                         daySchedule |-> schedules[daySchedule],
                         existingBookings |->
                           IF h.bookingRepo
                           THEN {bookings[i] : i \in GetByStylistAndDateString(
                                                       req.StylistID, req.Date)}
                           ELSE {},
                         endTime |-> ParseClock(schedules[daySchedule].EndTime),
                         currentTime |->
                           ParseClock(schedules[daySchedule].StartTime),
                         slots |-> <<>>,
                         iterations |-> 0,
                         broke |-> FALSE]]
                   /\ UNCHANGED resp

\* One pass through the body of the slot loop: the loop condition held, and
\* the pass either leaves the loop because the slot would end after the
\* window, or appends the slot and moves on by 30 minutes.  Passes beyond
\* MaxIterations are not followed.
GetAvailableSlotsIterate(u) ==
  /\ pc[u] = "slot_loop"
  /\ ~local[u].broke
  /\ local[u].currentTime < local[u].endTime
  /\ local[u].iterations < MaxIterations
  /\ UNCHANGED <<bookings, catalog, process, pc, resp>>
  /\ LET currentTime == local[u].currentTime
         slotEnd     == currentTime + local[u].query.Duration
     IN  IF slotEnd > local[u].endTime
         THEN local' = [local EXCEPT ![u].broke = TRUE,
                                     ![u].iterations = @ + 1]
         ELSE local' = [local EXCEPT
                ![u].slots = Append(@,
                   [Time |-> FormatClock(currentTime),
                    Available |->
                      ~\E booking \in local[u].existingBookings :
                         SlotConflicts(currentTime, slotEnd, booking)]),
                ![u].currentTime = currentTime + 30,
                ![u].iterations = @ + 1]

\* The loop is left, by its condition or by the break, and the slots are
\* answered.
GetAvailableSlotsReturn(u) ==
  /\ pc[u] = "slot_loop"
  /\ local[u].broke \/ ~(local[u].currentTime < local[u].endTime)
  /\ UNCHANGED <<bookings, catalog, process>>
  /\ resp' = AnswerWith(u, "GetAvailableSlots", StatusOK,
                        [handler |-> local[u].handler,
                         query |-> local[u].query],
                        local[u].slots)
  /\ pc' = [pc EXCEPT ![u] = "idle"]
  /\ local' = [local EXCEPT ![u] = NoLocal]

\* The elements of a sequence.
Range(s) == {s[k] : k \in DOMAIN s}

\* main starts a build; Database.AutoMigrate calls RunMigrations.
StartProcess(list) ==
  /\ run.pc = "stopped"
  /\ run.runs < MaxRuns
  /\ run' = [Stopped EXCEPT !.pc = "automigrate", !.list = list,
                            !.runs = run.runs + 1]
  /\ UNCHANGED <<store, migrations, schema, server>>

\* RunMigrations returning an error: gorm's Transaction has rolled back the
\* transaction the error came from.
ReturnError == [run EXCEPT !.pc = "returned", !.err = TRUE, !.tx = NoTx]

\* d.DB.AutoMigrate(&Migration{}): the migrations table is created if it is
\* not there; ok is whether the statement succeeds.
CreateMigrationsTable(ok) ==
  /\ run.pc = "automigrate"
  /\ run' = IF ok THEN [run EXCEPT !.pc = "find"] ELSE ReturnError
  /\ UNCHANGED <<store, migrations, schema, server>>

\* FindApplied building an empty appliedMap.
FindAppliedEmptyMap(ok) ==
  /\ run.pc = "find"
  /\ run' = IF ok
            THEN [run EXCEPT !.pc = "loop", !.found = migrations, !.applied = {}]
            ELSE ReturnError
  /\ UNCHANGED <<store, migrations, schema, server>>

\* d.DB.Find(&appliedMigrations) and the loop that fills appliedMap.
FindApplied(ok) ==
  /\ run.pc = "find"
  /\ run' = IF ok
            THEN [run EXCEPT !.pc = "loop", !.found = migrations,
                             !.applied = Range(migrations)]
            ELSE ReturnError
  /\ UNCHANGED <<store, migrations, schema, server>>

\* The head of the loop over migrationList: return nil after the last
\* entry, skip an applied version, open a transaction for any other.
NextMigration ==
  /\ run.pc = "loop"
  /\ run' = IF run.i > Len(run.list) THEN [run EXCEPT !.pc = "returned"]
            ELSE IF run.list[run.i] \in run.applied
            THEN [run EXCEPT !.i = @ + 1]
            ELSE [run EXCEPT !.pc = "fn", !.tx = [NoTx EXCEPT !.open = TRUE]]
  /\ UNCHANGED <<store, migrations, schema, server>>

\* RunMigrationFunc writing its changes outside the transaction.
RunMigrationFuncOutsideTx(ok) ==
  /\ run.pc = "fn"
  /\ schema' = Append(schema, run.list[run.i])
  /\ run' = IF ok
            THEN [run EXCEPT !.pc = "record",
                             !.executed = Append(@, run.list[run.i])]
            ELSE [ReturnError EXCEPT !.executed = Append(@, run.list[run.i])]
  /\ UNCHANGED <<store, migrations, server>>

\* migration.fn(tx): the statements of the migration run on the
\* transaction; when one fails the function returns its error.
RunMigrationFunc(ok) ==
  /\ run.pc = "fn"
  /\ run' = IF ok
            THEN [run EXCEPT !.pc = "record",
                             !.tx.changes = Append(@, run.list[run.i]),
                             !.executed = Append(@, run.list[run.i])]
            ELSE [ReturnError EXCEPT !.executed = Append(@, run.list[run.i])]
  /\ UNCHANGED <<store, migrations, schema, server>>

\* tx.Create(&record): the insert fails when the statement fails and when
\* the unique index on version finds the version recorded.
RecordMigration(ok) ==
  /\ run.pc = "record"
  /\ run' = IF ok /\ run.list[run.i] \notin Range(migrations)
            THEN [run EXCEPT !.pc = "commit",
                             !.tx.records = Append(@, run.list[run.i])]
            ELSE ReturnError
  /\ UNCHANGED <<store, migrations, schema, server>>

\* The commit at the end of d.DB.Transaction: the changes and the record
\* become visible together, or the commit fails and neither does.
CommitTransaction(ok) ==
  /\ run.pc = "commit"
  /\ IF ok
     THEN /\ migrations' = migrations \o run.tx.records
          /\ schema' = schema \o run.tx.changes
          /\ run' = [run EXCEPT !.pc = "loop", !.i = @ + 1, !.tx = NoTx]
     ELSE /\ run' = ReturnError
          /\ UNCHANGED <<migrations, schema>>
  /\ UNCHANGED <<store, server>>

\* The process dies while RunMigrations runs: the database rolls back the
\* transaction of the connection it loses.
Crash ==
  /\ run.pc \in {"automigrate", "find", "loop", "fn", "record", "commit"}
  /\ run' = [Stopped EXCEPT !.runs = run.runs]
  /\ UNCHANGED <<store, migrations, schema, server>>

\* main: log.Fatalf on the error of AutoMigrate.
Fatal ==
  /\ run.pc = "returned"
  /\ run.err
  /\ run' = [Stopped EXCEPT !.runs = run.runs]
  /\ UNCHANGED <<store, migrations, schema, server>>

\* main after the migrations: srv is built and left alone, and a goroutine
\* calls router.Run, which builds a server of its own and listens.
Serve ==
  /\ run.pc = "returned"
  /\ ~run.err
  /\ server.pc = "down"
  /\ server' = [Down EXCEPT !.pc = "serving", !.listening = {"engine"}]
  /\ UNCHANGED <<store, migrations, schema, run>>

\* The listening server accepts a connection and starts on its request.
AcceptRequest ==
  /\ "engine" \in server.listening
  /\ server.active["engine"] < MaxInFlight
  /\ server' = [server EXCEPT !.active["engine"] = @ + 1]
  /\ UNCHANGED <<store, migrations, schema, run>>

\* A request in flight is answered.
FinishRequest ==
  /\ server.active["engine"] > 0
  /\ server' = [server EXCEPT !.active["engine"] = @ - 1]
  /\ UNCHANGED <<store, migrations, schema, run>>

\* SIGINT or SIGTERM arrives: main leaves <-quit.
Signal ==
  /\ server.pc = "serving"
  /\ server' = [server EXCEPT !.pc = "quit"]
  /\ UNCHANGED <<store, migrations, schema, run>>

\* srv.Shutdown(ctx): srv's listeners are closed, and the call returns once
\* srv has no connection left or the context has timed out.  srv never
\* listened, so it has none.
Shutdown ==
  /\ server.pc = "quit"
  /\ server.active["srv"] = 0 \/ server.waited >= ShutdownTimeout
  /\ server' = [server EXCEPT !.pc = "shut", !.listening = @ \ {"srv"}]
  /\ UNCHANGED <<store, migrations, schema, run>>

\* main returns: the process exits, and with it every goroutine, the
\* listening server's and those of the requests in flight.
MainReturns ==
  /\ server.pc = "shut"
  /\ server' = Down
  /\ run' = [Stopped EXCEPT !.runs = run.runs]
  /\ UNCHANGED <<store, migrations, schema>>

\* The requests CreateBooking is given: every combination of the inputs.
RequestsOver(startTimes) ==
  [ServiceIDs : ServiceIDsInputs, StylistID : StylistIDInputs,
   Date : DateInputs, StartTime : startTimes]

\* The status updates a caller sends.  The admin guard answers a customer
\* before the handler reads the request, so one request stands for all of a
\* customer's.
StatusUpdateIDs(u) == IF AdminRequired(u) THEN BookingIDInputs ELSE {1}
StatusUpdateStatuses(u) ==
  IF AdminRequired(u) THEN StatusInputs ELSE {BookingStatusCancelled}

\* One step of one request; customers book, and everybody may call the
\* lifecycle operations.
NextOver(startTimes) ==
  \/ \E u \in Customers, req \in RequestsOver(startTimes) :
       CreateBookingCheck(u, req)
  \/ \E u \in Customers : CreateBookingInsert(u)
  \/ \E u \in Users :
       \E id \in StatusUpdateIDs(u), s \in StatusUpdateStatuses(u) :
         UpdateBookingStatus(u, id, s)
  \/ \E u \in Users, id \in BookingIDInputs : CancelBookingRead(u, id)
  \/ \E u \in Users : CancelBookingWrite(u)

Next == NextOver(DayStartTimes)

NextAnyString == NextOver(StartTimeInputs)

Spec == Init /\ [][Next]_vars

\* The same program, given more start times and start-time strings of any
\* shape.
SpecAnyString == Init /\ [][NextAnyString]_vars

\* The catalog requests a caller sends.  The admin guard answers a customer
\* before the handler reads the request, so one request stands for all of a
\* customer's.
CatalogServiceIDs(u) == IF AdminRequired(u) THEN ServiceIDInputs ELSE {1}
CatalogUpdates(u) ==
  IF AdminRequired(u) THEN UpdateServiceInputs
  ELSE {[Price |-> 0, Duration |-> 0, IsActive |-> "false"]}

\* Bookings being created while the catalog is edited.
NextCatalog ==
  \/ \E u \in Customers, req \in RequestsOver(DayStartTimes) :
       CreateBookingCheck(u, req)
  \/ \E u \in Customers : CreateBookingInsert(u)
  \/ \E u \in Users :
       \E id \in CatalogServiceIDs(u), req \in CatalogUpdates(u) :
         UpdateServiceRead(u, id, req)
  \/ \E u \in Users : UpdateServiceSave(u)
  \/ \E u \in Users : \E id \in CatalogServiceIDs(u) : DeleteService(u, id)

SpecCatalog == Init /\ [][NextCatalog]_vars

\* The bookings the slots are computed against: of stylist 1 on the Monday,
\* for services 1 and 2.
SlotBookingRequests ==
  [ServiceIDs : {<<1, 2>>}, StylistID : {1}, Date : {"2025-01-06"},
   StartTime : SlotStartTimes]

\* Slot queries between the steps of the booking requests and cancellations
\* of one customer and the status updates of the administrator.
NextSlots ==
  \/ \E req \in SlotBookingRequests : CreateBookingCheck(1, req)
  \/ CreateBookingInsert(1)
  \/ \E u \in Users \ Customers, id \in BookingIDInputs, s \in Statuses :
       UpdateBookingStatus(u, id, s)
  \/ \E id \in BookingIDInputs : CancelBookingRead(1, id)
  \/ CancelBookingWrite(1)
  \/ \E call \in SlotCalls : GetAvailableSlots(call.handler, call.query)

SpecSlots == Init /\ [][NextSlots]_vars

\* The two predicates evaluated on the bookings of one customer, whose
\* statuses the administrator updates.
NextPredicates ==
  \/ \E req \in SlotBookingRequests : CreateBookingCheck(1, req)
  \/ CreateBookingInsert(1)
  \/ \E u \in Users \ Customers, id \in BookingIDInputs, s \in Statuses :
       UpdateBookingStatus(u, id, s)
  \/ \E id \in BookingIDInputs, now \in NowInputs : EvaluatePredicates(id, now)

SpecPredicates == Init /\ [][NextPredicates]_vars

\* Lists and reads between the steps of the customers' booking requests and
\* the status updates of the administrator.
NextVisibility ==
  \/ \E u \in Customers, req \in SlotBookingRequests : CreateBookingCheck(u, req)
  \/ \E u \in Customers : CreateBookingInsert(u)
  \/ \E u \in Users \ Customers, id \in BookingIDInputs :
       UpdateBookingStatus(u, id, BookingStatusConfirmed)
  \/ \E u \in Users, q \in ListQueries : ListBookings(u, q)
  \/ \E u \in Users, id \in BookingIDInputs : GetBooking(u, id)

SpecVisibility == Init /\ [][NextVisibility]_vars

\* The routed booking API: one customer creates, everybody cancels and
\* reads, the administrator lists, and status updates pass the admin guard
\* or are refused by it.
NextLifecycle ==
  \/ \E body \in CreateBodies : CreateBookingCheck(1, ShouldBindJSON(body))
  \/ CreateBookingInsert(1)
  \/ \E u \in Users :
       \E id \in StatusUpdateIDs(u), s \in StatusUpdateStatuses(u) :
         UpdateBookingStatus(u, id, s)
  \/ \E u \in Users, id \in BookingIDInputs : CancelBookingRead(u, id)
  \/ \E u \in Users : CancelBookingWrite(u)
  \/ \E u \in Users \ Customers : ListBookings(u, DefaultListQuery)
  \/ \E u \in Users, id \in BookingIDInputs : GetBooking(u, id)

SpecLifecycle == Init /\ [][NextLifecycle]_vars

\* The life of the process: started, it runs the migrations, serves until
\* it is signalled, and exits; each database statement may fail.
NextProcess ==
  \/ \E list \in MigrationLists : StartProcess(list)
  \/ \E ok \in BOOLEAN : CreateMigrationsTable(ok)
  \/ \E ok \in BOOLEAN : FindApplied(ok)
  \/ NextMigration
  \/ \E ok \in BOOLEAN : RunMigrationFunc(ok)
  \/ \E ok \in BOOLEAN : RecordMigration(ok)
  \/ \E ok \in BOOLEAN : CommitTransaction(ok)
  \/ Crash
  \/ Fatal
  \/ Serve
  \/ AcceptRequest
  \/ FinishRequest
  \/ Signal
  \/ Shutdown
  \/ MainReturns

SpecProcess == InitProcess /\ [][NextProcess]_vars

\* One customer reads the slots, books and cancels.
NextAgreement ==
  \/ \E req \in AgreementRequests : CreateBookingCheck(1, req)
  \/ CreateBookingInsert(1)
  \/ \E id \in BookingIDInputs : CancelBookingRead(1, id)
  \/ CancelBookingWrite(1)
  \/ \E call \in AgreementCalls : GetAvailableSlots(call.handler, call.query)

SpecAgreement == Init /\ [][NextAgreement]_vars

\* The administrator adds windows; one customer reads the slots, books and
\* cancels.
NextWindows ==
  \/ \E u \in Users, req \in ScheduleInputs : CreateSchedule(u, 1, req)
  \/ \E req \in WindowRequests : CreateBookingCheck(1, req)
  \/ CreateBookingInsert(1)
  \/ \E id \in BookingIDInputs : CancelBookingRead(1, id)
  \/ CancelBookingWrite(1)
  \/ \E call \in WindowCalls : GetAvailableSlots(call.handler, call.query)

SpecWindows == Init /\ [][NextWindows]_vars

\* The administrator adds windows and customer 1 books, while customer 2
\* asks for slots and the loop of the query is followed pass by pass.
NextSlotLoop ==
  \/ \E u \in Users \ Customers, req \in ScheduleInputs :
       CreateSchedule(u, 1, req)
  \/ \E req \in WindowRequests : CreateBookingCheck(1, req)
  \/ CreateBookingInsert(1)
  \/ \E call \in SlotLoopCalls :
       GetAvailableSlotsBegin(2, call.handler, call.query)
  \/ GetAvailableSlotsIterate(2)
  \/ GetAvailableSlotsReturn(2)

SpecSlotLoop == Init /\ [][NextSlotLoop]_vars

\* ------------------------------------------------------------------ claims
\* A valid HH:MM time of day, and its minutes since midnight.
IsHHMM(s) ==
  /\ Len(s) = 5
  /\ IsDigit(s[1]) /\ IsDigit(s[2]) /\ s[3] = 58 /\ IsDigit(s[4]) /\ IsDigit(s[5])
  /\ Atoi2(SubSeq(s, 1, 2)) < 24
  /\ Atoi2(SubSeq(s, 4, 5)) < 60

Minutes(s) == Atoi2(SubSeq(s, 1, 2)) * 60 + Atoi2(SubSeq(s, 4, 5))

\* Two bookings whose intervals [StartTime, EndTime) overlap, the times
\* compared as HH:MM strings of one day.
Overlap(a, b) ==
  StrLess(a.StartTime, b.EndTime) /\ StrLess(b.StartTime, a.EndTime)

\* The transitions the lifecycle allows.
AllowedTransition(from, to) ==
  <<from, to>> \in {<<BookingStatusPending, BookingStatusConfirmed>>,
                    <<BookingStatusPending, BookingStatusCancelled>>,
                    <<BookingStatusConfirmed, BookingStatusCompleted>>,
                    <<BookingStatusConfirmed, BookingStatusCancelled>>}

\* C1: in every reachable state, two non-cancelled bookings of the same
\* stylist and date have non-overlapping intervals [start, end).
C1_NoDoubleBooking ==
  \A i, j \in DOMAIN bookings :
    (/\ i # j
     /\ bookings[i].StylistID = bookings[j].StylistID
     /\ bookings[i].BookingDate = bookings[j].BookingDate
     /\ bookings[i].Status # BookingStatusCancelled
     /\ bookings[j].Status # BookingStatusCancelled)
    => ~Overlap(bookings[i], bookings[j])

\* C2: the availability check and the insert of CreateBooking are one atomic
\* unit: an insert step of a request whose interval by now conflicts with a
\* pending or confirmed booking of the stylist and date writes nothing and
\* is answered 409.
C2_CheckAndInsertAtomic ==
  [][\A u \in Customers :
       (/\ pc[u] = "create_insert"
        /\ pc'[u] = "idle"
        /\ ConflictingBookings(local[u].booking.StylistID,
                               local[u].booking.BookingDate,
                               local[u].booking.StartTime,
                               local[u].booking.EndTime) # {})
       => (/\ bookings' = bookings
           /\ resp' = Answer(u, "CreateBooking", StatusConflict))]_vars

\* C3: a status update by the administrator stores the requested status and
\* succeeds iff (current, requested) is an allowed transition; every other
\* pair is refused and leaves the stored status as it was.
C3_TransitionTableTotal ==
  [][\A u \in Users, id \in DOMAIN bookings, s \in Statuses :
       (AdminRequired(u) /\ UpdateBookingStatus(u, id, s))
       => IF AllowedTransition(bookings[id].Status, s)
          THEN bookings'[id].Status = s /\ resp'.code = StatusOK
          ELSE bookings' = bookings /\ resp'.code # StatusOK]_vars

\* C4: completed and cancelled are terminal: no step changes the status of a
\* booking that is completed or cancelled.
C4_TerminalStatuses ==
  [][\A i \in DOMAIN bookings :
       bookings[i].Status \in {BookingStatusCompleted, BookingStatusCancelled}
       => bookings'[i].Status = bookings[i].Status]_vars

\* C5: the write of a CancelBooking that runs concurrently with status
\* updates changes the stored status only along an allowed transition.
C5_CancelWriteAllowed ==
  [][\A u \in Users :
       (/\ pc[u] = "cancel_write"
        /\ pc'[u] = "idle"
        /\ bookings'[local[u].id].Status # bookings[local[u].id].Status)
       => AllowedTransition(bookings[local[u].id].Status,
                            bookings'[local[u].id].Status)]_vars

\* C6: a step of a non-administrator changes a booking's status only by
\* cancelling a booking the caller owns, and a CancelBooking by a
\* non-administrator on somebody else's booking is answered 403 and changes
\* nothing.
C6_NonAdminCancelsOnlyOwn ==
  [][/\ \A i \in DOMAIN bookings :
          (/\ bookings'[i].Status # bookings[i].Status
           /\ Role(resp'.caller) # "admin")
          => (/\ resp'.op = "CancelBooking"
              /\ bookings'[i].Status = BookingStatusCancelled
              /\ bookings[i].UserID = resp'.caller)
     /\ \A u \in Customers, i \in DOMAIN bookings :
          (CancelBookingRead(u, i) /\ bookings[i].UserID # u)
          => (/\ resp' = Answer(u, "CancelBooking", StatusForbidden)
              /\ bookings' = bookings
              /\ pc' = pc)]_vars

\* C6 witness: a customer was refused the cancellation of a booking of
\* another customer.
C6_Witness ==
  /\ resp.op = "CancelBooking"
  /\ resp.code = StatusForbidden
  /\ resp.caller \in Customers
  /\ \E i \in DOMAIN bookings : bookings[i].UserID # resp.caller

\* C7: a step that answers a CancelBooking or an UpdateBookingStatus with a
\* refusal (400 or 403) leaves the bookings table as it was.
C7_RefusalWritesNothing ==
  [][(/\ resp'.op \in {"CancelBooking", "UpdateBookingStatus"}
      /\ resp'.code \in {StatusBadRequest, StatusForbidden})
     => bookings' = bookings]_vars

\* C7 witness: a CancelBooking was refused because the booking, now completed
\* or cancelled, is not cancellable.
C7_Witness ==
  /\ resp.op = "CancelBooking"
  /\ resp.code = StatusBadRequest
  /\ \E i \in DOMAIN bookings :
       /\ ~IsCancellable(bookings[i])
       /\ (bookings[i].UserID = resp.caller \/ Role(resp.caller) = "admin")

\* The window IsAvailable uses for a booking, if there is one.
HasWindow(b) == ScheduleRows(b.StylistID, ParseDate(b.BookingDate).Weekday) # {}
WindowOf(b) ==
  schedules[FirstRow(ScheduleRows(b.StylistID, ParseDate(b.BookingDate).Weekday))]

\* C8: every committed booking with an HH:MM start lies inside the stylist's
\* active window of its weekday: window.start <= start and
\* start + total duration <= window.end.
C8_InsideWindow ==
  \A i \in DOMAIN bookings :
    IsHHMM(bookings[i].StartTime)
    => (/\ HasWindow(bookings[i])
        /\ Minutes(WindowOf(bookings[i]).StartTime) <= Minutes(bookings[i].StartTime)
        /\ Minutes(bookings[i].StartTime) + bookings[i].Duration
             <= Minutes(WindowOf(bookings[i]).EndTime))

\* C9: no committed booking has an end time that wrapped past midnight: its
\* end time is later than its start time as times of one day.
C9_NoMidnightWrap ==
  \A i \in DOMAIN bookings :
    IsHHMM(bookings[i].StartTime)
    => Minutes(bookings[i].EndTime) > Minutes(bookings[i].StartTime)

\* C10: no booking whose start time is not a valid HH:MM is ever committed.
C10_StartTimeWellFormed ==
  \A i \in DOMAIN bookings : IsHHMM(bookings[i].StartTime)

\* C11: a CreateBooking request passes the service loop only if every
\* requested service exists and is active at that time; a request naming an
\* unknown or inactive service is answered 400 and goes no further.
C11_OnlyActiveServices ==
  [][\A u \in Customers, req \in RequestsOver(DayStartTimes) :
       (/\ CreateBookingCheck(u, req)
        /\ \E k \in DOMAIN req.ServiceIDs :
             \/ req.ServiceIDs[k] \notin DOMAIN services
             \/ ~services[req.ServiceIDs[k]].IsActive)
       => (/\ resp' = Answer(u, "CreateBooking", StatusBadRequest)
           /\ pc'[u] = "idle")]_vars

\* C12: the total duration and the total price of every booking are the sums
\* over its embedded service snapshots, whatever has happened to the catalog
\* since.
C12_TotalsAreSnapshotSums ==
  \A i \in DOMAIN bookings :
    /\ bookings[i].Duration = SumDuration(bookings[i].Services)
    /\ bookings[i].Price = SumPrice(bookings[i].Services)

\* C12 witness: a booking one of whose services has since been deleted and
\* another has since got a different price and duration.
C12_Witness ==
  \E i \in DOMAIN bookings :
    /\ \E k \in DOMAIN bookings[i].Services :
         bookings[i].Services[k].ID \notin DOMAIN services
    /\ \E k \in DOMAIN bookings[i].Services :
         /\ bookings[i].Services[k].ID \in DOMAIN services
         /\ services[bookings[i].Services[k].ID].Price
              # bookings[i].Services[k].Price
         /\ services[bookings[i].Services[k].ID].Duration
              # bookings[i].Services[k].Duration

\* C13: the end time of every committed booking with an HH:MM start is its
\* start time plus its total duration, counted in minutes since midnight.
C13_EndIsStartPlusDuration ==
  \A i \in DOMAIN bookings :
    IsHHMM(bookings[i].StartTime)
    => Minutes(bookings[i].EndTime)
         = Minutes(bookings[i].StartTime) + SumDuration(bookings[i].Services)

\* A slot query that is not refused, and the window it is answered from.
ValidSlotQuery(req) == req.Duration > 0 /\ ~ParseDate(req.Date).err
HasSlotWindow(req) ==
  ScheduleRows(req.StylistID, ParseDate(req.Date).Weekday) # {}
SlotWindow(req) ==
  schedules[DaySchedule(req.StylistID, ParseDate(req.Date).Weekday)]
\* The slot starts the step window.start + 30 * k yields for a duration.
CandidateIndexes(window, duration) ==
  {k \in 0..47 :
     Minutes(window.StartTime) + 30 * k + duration <= Minutes(window.EndTime)}
\* The bookings of a stylist and date, whatever their status.
ReservationsOf(stylistID, date) ==
  {i \in DOMAIN bookings :
     bookings[i].StylistID = stylistID /\ bookings[i].BookingDate = date}

C16_UnavailableIffOverlap ==
  [][(/\ resp' # resp
      /\ resp'.op = "GetAvailableSlots"
      /\ resp'.code = StatusOK
      /\ resp'.req.handler = NewStylistHandlerWithBooking)
     => LET req == resp'.req.query
        IN  \A k \in DOMAIN resp'.body :
              resp'.body[k].Available
                = ~\E i \in ReservationsOf(req.StylistID, req.Date) :
                     /\ bookings[i].Status # BookingStatusCancelled
                     /\ Minutes(resp'.body[k].Time)
                          < Minutes(bookings[i].StartTime)
                              + SumDuration(bookings[i].Services)
                     /\ Minutes(bookings[i].StartTime)
                          < Minutes(resp'.body[k].Time) + req.Duration]_vars

\* C17: a slot query that is not refused, for a stylist with no active
\* schedule row on the weekday of the date, is answered 200 with the empty
\* sequence, whatever bookings exist.
C17_NoWindowNoSlots ==
  (/\ resp.op = "GetAvailableSlots"
   /\ ValidSlotQuery(resp.req.query) /\ ~HasSlotWindow(resp.req.query))
  => (resp.code = StatusOK /\ resp.body = <<>>)

\* C17 witness: while the stylist has a booking, a query for a Tuesday, for
\* which the stylist's only row is inactive, was answered with no slots.
C17_Witness ==
  /\ resp.op = "GetAvailableSlots"
  /\ resp.code = StatusOK
  /\ resp.req.query.StylistID = 1
  /\ resp.req.query.Date = "2025-01-07"
  /\ resp.body = <<>>
  /\ \E i \in DOMAIN bookings : bookings[i].StylistID = 1

\* The calendar day an instant or a date falls on, counted from 2025-01-05.
DayOfInstant(now) == now \div 24
DayOfDate(s) ==
  CASE s = "2025-01-06" -> 1
    [] s = "2025-01-07" -> 2
    [] s = "2025-01-08" -> 3
    [] s = "2025-01-09" -> 4

\* C18: IsCancellable is true exactly of the bookings that are pending or
\* confirmed, and IsUpcoming exactly of those among them whose date is a
\* later day than the day of the evaluation: both are false of every
\* completed or cancelled booking, IsUpcoming also of every booking dated
\* today or earlier.
C18_PredicatesOfTheReservation ==
  resp.op = "Booking.IsUpcoming"
  => LET b   == resp.req.booking
         now == resp.req.now
     IN  /\ resp.body.IsCancellable
              = (b.Status \notin {BookingStatusCompleted, BookingStatusCancelled})
         /\ resp.body.IsUpcoming
              = (/\ DayOfDate(b.BookingDate) > DayOfInstant(now)
                 /\ b.Status \in {BookingStatusPending, BookingStatusConfirmed})
         /\ b.Status \in {BookingStatusCompleted, BookingStatusCancelled}
              => (~resp.body.IsCancellable /\ ~resp.body.IsUpcoming)
         /\ DayOfDate(b.BookingDate) <= DayOfInstant(now)
              => ~resp.body.IsUpcoming

\* C18 witness: a confirmed booking dated 2025-01-06 was evaluated at the
\* first instant of that day: cancellable, and not upcoming.
C18_Witness ==
  /\ resp.op = "Booking.IsUpcoming"
  /\ resp.req.booking.Status = BookingStatusConfirmed
  /\ resp.req.booking.BookingDate = "2025-01-06"
  /\ resp.req.now = 24
  /\ resp.body.IsCancellable
  /\ ~resp.body.IsUpcoming

\* The bookings of a stylist and date that overlap [from, to), in minutes
\* since midnight, and are not cancelled.
LiveOverlaps(stylistID, date, from, to) ==
  {i \in ReservationsOf(stylistID, date) :
     /\ bookings[i].Status # BookingStatusCancelled
     /\ from < Minutes(bookings[i].StartTime) + bookings[i].Duration
     /\ Minutes(bookings[i].StartTime) < to}
\* The cancelled ones among them.
CancelledOverlaps(stylistID, date, from, to) ==
  {i \in ReservationsOf(stylistID, date) :
     /\ bookings[i].Status = BookingStatusCancelled
     /\ from < Minutes(bookings[i].StartTime) + bookings[i].Duration
     /\ Minutes(bookings[i].StartTime) < to}
\* A booking request for the interval of a cancelled booking, inside the
\* window and overlapping no booking that is not cancelled.
RebooksCancelled(req) ==
  LET from == Minutes(req.StartTime)
      to   == from + SumDuration(ServiceItems(req.ServiceIDs))
      rows == ScheduleRows(req.StylistID, ParseDate(req.Date).Weekday)
  IN  /\ rows # {}
      /\ Minutes(schedules[FirstRow(rows)].StartTime) <= from
      /\ to <= Minutes(schedules[FirstRow(rows)].EndTime)
      /\ LiveOverlaps(req.StylistID, req.Date, from, to) = {}
      /\ \E i \in CancelledOverlaps(req.StylistID, req.Date, from, to) :
           /\ Minutes(bookings[i].StartTime) = from
           /\ bookings[i].Duration = to - from

\* C19: a cancelled booking occupies no slot.  A slot answer marks available
\* every slot that overlaps cancelled bookings only; a CreateBooking for the
\* interval of a cancelled booking, inside the window and overlapping no
\* other booking, passes the availability check; and the insert of a request
\* that passed is answered 201 with the row added.
C19_CancelledFreesTheSlot ==
  [][/\ (/\ resp' # resp
         /\ resp'.op = "GetAvailableSlots"
         /\ resp'.code = StatusOK)
        => LET req == resp'.req.query
           IN  \A k \in DOMAIN resp'.body :
                 LET from == Minutes(resp'.body[k].Time)
                     to   == from + req.Duration
                 IN  (/\ CancelledOverlaps(req.StylistID, req.Date, from, to) # {}
                      /\ LiveOverlaps(req.StylistID, req.Date, from, to) = {})
                     => resp'.body[k].Available
     /\ (pc[1] = "idle" /\ bookings' = bookings
           /\ (pc'[1] # pc[1] \/ (resp' # resp /\ resp'.op = "CreateBooking")))
        => \A req \in SlotBookingRequests :
             (RebooksCancelled(req) /\ CreateBookingCheck(1, req))
             => (pc'[1] = "create_insert" /\ resp' = resp)
     /\ (pc[1] = "create_insert" /\ pc'[1] = "idle")
          => (/\ resp' = Answer(1, "CreateBooking", StatusCreated)
              /\ bookings' = Append(bookings, local[1].booking))]_vars

\* C19 witness: right after the cancellation of a booking was answered, a
\* request for the same stylist, date and interval has passed the
\* availability check and is about to be inserted.
C19_Witness ==
  /\ resp = Answer(1, "CancelBooking", StatusOK)
  /\ pc[1] = "create_insert"
  /\ \E i \in DOMAIN bookings :
       /\ bookings[i].Status = BookingStatusCancelled
       /\ bookings[i].StylistID = local[1].booking.StylistID
       /\ bookings[i].BookingDate = local[1].booking.BookingDate
       /\ bookings[i].StartTime = local[1].booking.StartTime
       /\ bookings[i].EndTime = local[1].booking.EndTime

\* The bookings table as a caller's own bookings alone make it (the rows of
\* the others removed), and with the rows of the others kept but emptied of
\* everything except that they belong to somebody else.
OwnTable(u) ==
  [i \in {j \in DOMAIN bookings : bookings[j].UserID = u} |-> bookings[i]]
ScrubbedTable(u) ==
  [i \in DOMAIN bookings |->
     IF bookings[i].UserID = u THEN bookings[i] ELSE [UserID |-> 0]]

\* C20: for a caller who is not an administrator, ListBookings answers with
\* rows of the caller only, under every filter, limit and offset, and the
\* answer is one the caller's own bookings alone would give; GetBooking on a
\* booking of somebody else is answered 403 with no data, on an own booking
\* 200 with that booking, and its answer is the one a table gives in which
\* the bookings of the others are emptied of their data.
C20_RoleBasedVisibility ==
  [][(resp' # resp /\ Role(resp'.caller) = "customer")
     => LET u == resp'.caller
        IN  /\ resp'.op = "ListBookings"
               => (/\ \A k \in DOMAIN resp'.body.bookings :
                        resp'.body.bookings[k].row.UserID = u
                   /\ resp'.body \in List(OwnTable(u), u, resp'.req)
                   /\ resp'.body \in List(OwnTable(u), 0, resp'.req))
            /\ resp'.op = "GetBooking"
               => (/\ resp' = GetBookingAnswer(ScrubbedTable(u), u, resp'.req.ID)
                   /\ (resp'.req.ID \in DOMAIN bookings
                       /\ bookings[resp'.req.ID].UserID # u)
                      => (/\ resp'.code = StatusForbidden
                          /\ resp'.body.bookings = <<>>)
                   /\ \A k \in DOMAIN resp'.body.bookings :
                        resp'.body.bookings[k].row.UserID = u)]_vars

\* C20 witness: customer 1, who has a booking, listed the bookings while
\* customer 2 has one too, and got one row.
C20_Witness ==
  /\ resp.op = "ListBookings"
  /\ resp.caller = 1
  /\ resp.req = DefaultListQuery
  /\ Len(resp.body.bookings) = 1
  /\ resp.body.total = 1
  /\ \E i, j \in DOMAIN bookings :
       bookings[i].UserID = 1 /\ bookings[j].UserID = 2

\* C21: every booking enters the table as pending.  An insert answered 201
\* adds exactly one row, whose status is pending although the body asked for
\* another, and leaves the other rows as they were; no other step adds a
\* row; and the status of a row changes only in a step that answers an
\* UpdateBookingStatus or a CancelBooking with 200.
C21_CreatedPending ==
  [][/\ \A u \in Customers :
          (/\ pc[u] = "create_insert" /\ pc'[u] = "idle"
           /\ resp'.code = StatusCreated)
          => (/\ Len(bookings') = Len(bookings) + 1
              /\ SubSeq(bookings', 1, Len(bookings)) = bookings
              /\ bookings'[Len(bookings')].Status = BookingStatusPending)
     /\ Len(bookings') # Len(bookings)
          => (/\ Len(bookings') = Len(bookings) + 1
              /\ bookings'[Len(bookings')].Status = BookingStatusPending
              /\ resp'.op = "CreateBooking" /\ resp'.code = StatusCreated)
     /\ \A i \in DOMAIN bookings :
          (i \in DOMAIN bookings' /\ bookings'[i].Status # bookings[i].Status)
          => (/\ resp'.op \in {"UpdateBookingStatus", "CancelBooking"}
              /\ resp'.code = StatusOK)]_vars

\* C21 witness: a booking has just been created while an earlier one has
\* already left pending: the new row is pending.
C21_Witness ==
  /\ resp.op = "CreateBooking"
  /\ resp.code = StatusCreated
  /\ Len(bookings) = 2
  /\ bookings[1].Status = BookingStatusCancelled
  /\ bookings[2].Status = BookingStatusPending

\* C22: no request of the routed booking API removes a booking: every id of
\* the table stays in it, with its owner; a GetBooking by the owner or the
\* administrator on a cancelled or completed booking is answered 200 with
\* the row; and the administrator's unfiltered list counts every row.
C22_NeverDeleted ==
  [][/\ \A i \in DOMAIN bookings :
          i \in DOMAIN bookings' /\ bookings'[i].UserID = bookings[i].UserID
     /\ (resp' # resp /\ resp'.op = "GetBooking")
          => \A i \in DOMAIN bookings :
               (/\ resp'.req.ID = i
                /\ bookings[i].Status \in {BookingStatusCancelled,
                                           BookingStatusCompleted}
                /\ (Role(resp'.caller) = "admin"
                    \/ bookings[i].UserID = resp'.caller))
               => (/\ resp'.code = StatusOK
                   /\ resp'.body.bookings = <<[ID |-> i, row |-> bookings[i]]>>)
     /\ (resp' # resp /\ resp'.op = "ListBookings"
         /\ Role(resp'.caller) = "admin")
          => (/\ resp'.body.total = Len(bookings)
              /\ {resp'.body.bookings[k].ID : k \in DOMAIN resp'.body.bookings}
                   = DOMAIN bookings)]_vars

\* C22 witness: with one booking cancelled and the other completed, the
\* customer read the cancelled one.
C22_Witness ==
  /\ resp.op = "GetBooking"
  /\ resp.caller = 1
  /\ resp.code = StatusOK
  /\ Len(bookings) = 2
  /\ {bookings[1].Status, bookings[2].Status}
       = {BookingStatusCancelled, BookingStatusCompleted}
  /\ resp.body.bookings[1].row.Status = BookingStatusCancelled

\* C23: a status update by the administrator with a valid status, or a
\* cancel request, that names an id of no booking is answered 404 and
\* changes nothing.
C23_AbsentIdNotFound ==
  [][\A u \in Users, id \in BookingIDInputs :
       id \notin DOMAIN bookings
       => /\ \A s \in Statuses :
               (AdminRequired(u) /\ UpdateBookingStatus(u, id, s))
               => (/\ resp' = Answer(u, "UpdateBookingStatus", StatusNotFound)
                   /\ bookings' = bookings)
          /\ CancelBookingRead(u, id)
               => (/\ resp' = Answer(u, "CancelBooking", StatusNotFound)
                   /\ bookings' = bookings
                   /\ pc' = pc)]_vars

\* The entries of a list that have no record among those found, in the
\* order of the list.
PendingOf(list, found) == SelectSeq(list, LAMBDA v : v \notin Range(found))
\* The number of times v occurs in a sequence.
Occurrences(s, v) == Cardinality({k \in DOMAIN s : s[k] = v})

\* C24: RunMigrations calls the functions of the listed versions that had no
\* record when it read the table, in the order of the list, and of no other;
\* no version is ever recorded or committed twice; when it returns nil every
\* listed version has exactly one record and the table is the one it found
\* followed by the versions it ran, so that a run that finds every listed
\* version recorded calls no function and leaves the table as it was.
C24_MigrationsOnce ==
  /\ \A v \in Range(migrations) : Occurrences(migrations, v) = 1
  /\ \A v \in Range(schema) : Occurrences(schema, v) = 1
  /\ Len(run.executed) <= Len(PendingOf(run.list, run.found))
  /\ run.executed
       = SubSeq(PendingOf(run.list, run.found), 1, Len(run.executed))
  /\ (run.pc = "returned" /\ ~run.err)
       => (/\ \A k \in DOMAIN run.list :
                Occurrences(migrations, run.list[k]) = 1
           /\ run.executed = PendingOf(run.list, run.found)
           /\ migrations = run.found \o run.executed
           /\ Range(run.list) \subseteq Range(run.found)
                => (run.executed = <<>> /\ migrations = run.found))

\* C24 witness: the second start of the build with three migrations, all
\* of them recorded, has returned nil without calling a function.
C24_Witness ==
  /\ run.pc = "returned"
  /\ ~run.err
  /\ run.runs = 2
  /\ run.list = <<"v1", "v2", "v3">>
  /\ run.found = <<"v1", "v2", "v3">>
  /\ run.executed = <<>>
  /\ migrations = <<"v1", "v2", "v3">>

\* C25: a version is recorded iff its changes are committed, in every state;
\* a step in which the migration function, the insert of the record or the
\* commit fails leaves the table and the committed changes as they were,
\* ends the run with an error and leaves no transaction open; after the
\* error the run calls no function; and no step removes a record.
C25_MigrationTransactional ==
  [][/\ schema = migrations /\ schema' = migrations'
     /\ (run.pc \in {"fn", "record", "commit"} /\ run'.pc = "returned")
          => (/\ run'.err
              /\ run'.tx = NoTx
              /\ migrations' = migrations
              /\ schema' = schema)
     /\ (run.pc = "returned" /\ run.err)
          => (run'.pc \in {"returned", "stopped"}
              /\ migrations' = migrations /\ schema' = schema)
     /\ Len(migrations') >= Len(migrations)
     /\ SubSeq(migrations', 1, Len(migrations)) = migrations]_vars

\* C25 witness: the function of the second of three migrations has failed
\* after the first was committed: the run has ended with an error, only the
\* first is recorded and committed, and the third has not been run.
C25_Witness ==
  /\ run.pc = "returned"
  /\ run.err
  /\ run.list = <<"v1", "v2", "v3">>
  /\ run.found = <<>>
  /\ run.executed = <<"v1", "v2">>
  /\ migrations = <<"v1">>
  /\ schema = <<"v1">>

\* C26: once srv.Shutdown has been called the process accepts no request,
\* and it exits only when no request is in flight or the shutdown has waited
\* for the timeout.
C26_GracefulShutdown ==
  [][/\ server.pc = "shut"
          => server'.active["engine"] <= server.active["engine"]
             \/ server'.pc = "down"
     /\ (server.pc = "shut" /\ server'.pc = "down")
          => (server.active["engine"] = 0
              \/ server.waited >= ShutdownTimeout)]_vars

\* The slot query a booking request corresponds to.
SlotQueryOf(req) ==
  [StylistID |-> req.StylistID, Date |-> req.Date,
   Duration |-> SumDuration(ServiceItems(req.ServiceIDs))]
\* The last answer is the slot answer to query q and no request is between
\* its steps: nothing has been written since the slots were computed.
QuiescentAfterSlots(q) ==
  /\ resp.op = "GetAvailableSlots"
  /\ resp.code = StatusOK
  /\ resp.req.query = q
  /\ \A u \in Users : pc[u] = "idle"

\* C27: a CreateBooking that directly follows the slot answer for its
\* stylist, date and total duration passes the availability check, and is
\* then committed, if the answer lists its start time as available, and is
\* answered 409 if the answer lists the start time as unavailable or not at
\* all.
C27_SlotsAgreeWithBooking ==
  [][/\ \A req \in AgreementRequests :
          (/\ resp.op = "GetAvailableSlots"
           /\ QuiescentAfterSlots(SlotQueryOf(req))
           /\ CreateBookingCheck(1, req))
          => IF \E k \in DOMAIN resp.body :
                  resp.body[k].Time = req.StartTime /\ resp.body[k].Available
             THEN pc'[1] = "create_insert" /\ resp' = resp
             ELSE /\ resp' = Answer(1, "CreateBooking", StatusConflict)
                  /\ pc'[1] = "idle"
     /\ (pc[1] = "create_insert" /\ pc'[1] = "idle")
          => (/\ resp' = Answer(1, "CreateBooking", StatusCreated)
              /\ bookings' = Append(bookings, local[1].booking))]_vars

\* C28: for every stylist and weekday with an active window, the window the
\* slot computation uses is the window the booking check uses.
C28_SameWindow ==
  \A s \in stylists, dayOfWeek \in 0..6 :
    ScheduleRows(s, dayOfWeek) # {}
    => LET slotWindow    == schedules[DaySchedule(s, dayOfWeek)]
           bookingWindow == schedules[FirstRow(ScheduleRows(s, dayOfWeek))]
       IN  /\ slotWindow.StartTime = bookingWindow.StartTime
           /\ slotWindow.EndTime = bookingWindow.EndTime

\* The columns of a booking other than its status.
FrameFields ==
  {"UserID", "StylistID", "Services", "BookingDate", "StartTime", "EndTime",
   "Duration", "Price"}
\* The rows a step changes.
ChangedRows == {i \in DOMAIN bookings : bookings'[i] # bookings[i]}

\* C29: a step that changes a row of the bookings table without adding one
\* answers an UpdateBookingStatus or a CancelBooking, changes exactly one
\* row, and leaves that row's owner, stylist, services, date, start, end,
\* duration and price as they were; the write of a CancelBooking changes no
\* row but the one it read, and an UpdateBookingStatus no row but the one of
\* its path.
C29_StatusUpdateFrame ==
  [][(Len(bookings') = Len(bookings) /\ bookings' # bookings)
     => /\ resp'.op \in {"UpdateBookingStatus", "CancelBooking"}
        /\ Cardinality(ChangedRows) = 1
        /\ \A i \in ChangedRows :
             /\ \A f \in FrameFields : bookings'[i][f] = bookings[i][f]
             /\ bookings'[i].Status # bookings[i].Status
        /\ \A u \in Users :
             (pc[u] = "cancel_write" /\ pc'[u] = "idle")
             => (/\ ChangedRows = {local[u].id}
                 /\ bookings'[local[u].id].Status = BookingStatusCancelled)
        /\ resp'.op = "UpdateBookingStatus"
             => \A id \in BookingIDInputs, s \in Statuses :
                  UpdateBookingStatus(resp'.caller, id, s)
                  => (ChangedRows = {id} /\ bookings'[id].Status = s)]_vars

\* C29 witness: a cancellation has just been answered; the cancelled booking
\* still has its times and totals, and the other booking, confirmed, is as
\* it was.
C29_Witness ==
  /\ resp.op = "CancelBooking"
  /\ resp.code = StatusOK
  /\ Len(bookings) = 2
  /\ bookings[1].Status = BookingStatusCancelled
  /\ bookings[1].StartTime = T0900
  /\ bookings[1].Duration = 60
  /\ bookings[2].Status = BookingStatusConfirmed
  /\ bookings[2].StartTime = T1000

\* The length in minutes of a window, read from its two clock times; none
\* if the end is not after the start.
WindowLength(w) ==
  IF Minutes(w.EndTime) > Minutes(w.StartTime)
  THEN Minutes(w.EndTime) - Minutes(w.StartTime)
  ELSE 0

\* C30: for every active window and every duration > 0 the slot loop of
\* GetAvailableSlots makes at most (window length / 30) + 1 passes and never
\* emits a start at or after the end of the window.
C30_SlotLoopBounded ==
  \A u \in Users :
    pc[u] = "slot_loop"
    => LET w == local[u].daySchedule
       IN  /\ local[u].iterations <= WindowLength(w) \div 30 + 1
           /\ \A k \in 1..Len(local[u].slots) :
                Minutes(w.StartTime) + 30 * (k - 1) < Minutes(w.EndTime)

====
